---------------------------- MODULE Spec2Model ----------------------------
(***************************************************************************)
(* The three server variants of the repository (src/server.js,             *)
(* src/unnamed/part_000, src/unnamed/part_001) as one state machine.       *)
(*                                                                         *)
(* A behaviour picks one variant and one environment, executes the         *)
(* module's top-level statements in source order (building the Express     *)
(* layer stack), and, once listening, serves requests: each request walks  *)
(* the layer stack in registration order, passes the auth gate, issues     *)
(* its spreadsheet reads and sends its response.  Requests share no        *)
(* mutable state in the code, so the model serves them one after another.  *)
(***************************************************************************)
EXTENDS Integers, Sequences, FiniteSets, TLC

\* ------------------------------------------------------------------ bounds
MaxHeaderLen == 3   \* atoms in an Authorization header
MaxRows      == 2   \* rows a multi-row range read returns
MaxTicks     == 2   \* half-day clock steps

\* --------------------------------------------------------------- constants
ExpiresIn   == 86400   \* '24h' of jwt.sign, in seconds
HalfDay     == ExpiresIn \div 2   \* clock step of the model

UNSET       == "<unset>"       \* an environment variable that is not set
UNDEF       == "<undefined>"   \* JavaScript undefined in a string position

Variants    == {"server.js", "part_000", "part_001"}

DefaultSecret == "your-secret-key"
ValidEmail    == "asb@gmail.com"
ValidPassword == "123"

\* ------------------------------------------------------- header and tokens
\* An Authorization header is a sequence of atoms: a space, the word
\* "Bearer", or a token.  A token atom records what its signature and
\* payload say; "junk" is a string that is no token at all.
Atom(k, email, secret, exp) ==
    [k |-> k, email |-> email, secret |-> secret, exp |-> exp]

SP      == Atom("sp", "", "", 0)
BEARER  == Atom("word", "", "", 0)
JUNK    == Atom("junk", "", "", 0)
NoToken == Atom("none", "", "", 0)

FirebaseKey == "firebase-key"
Secrets     == {"s3cr3t", DefaultSecret, "evil", FirebaseKey}

\* the tokens a client may present: signed at time 0 for 24 hours
ClientTokens ==
    {JUNK} \cup {Atom("jwt", ValidEmail, s, ExpiresIn) : s \in Secrets}

VARIABLES
    variant,     \* which source file is the running program
    env,         \* process.env
    proc,        \* "loading" | "listening" | "exited"
    ip,          \* index of the next top-level statement
    defined,     \* const bindings already initialised
    stack,       \* the Express layer stack, in registration order
    exitCause,   \* why the process ended
    now,         \* clock, seconds
    req,         \* the request being served
    rpc,         \* "idle" | "dispatch" | "verifying" | "awaiting" | "responded"
    idx,         \* the layer of stack the request is at
    err,         \* the error passed to next(err), UNDEF if none
    res,         \* the response sent
    sent,        \* number of responses sent for the request
    trail,       \* what the request went through
    reads        \* the spreadsheet reads of the request

startVars == <<variant, env, proc, ip, defined, stack, exitCause>>
reqVars   == <<req, rpc, idx, err, res, sent, trail, reads>>
vars      == <<variant, env, proc, ip, defined, stack, exitCause, now,
               req, rpc, idx, err, res, sent, trail, reads>>

\* ------------------------------------------------------ top-level program
Stmt(op, name, method, path, mw, handler, line) ==
    [op |-> op, name |-> name, method |-> method, path |-> path,
     mw |-> mw, handler |-> handler, line |-> line]

Use(kind, line)      == Stmt("use", kind, "", "", "", "", line)
Const(name, line)    == Stmt("const", name, "", "", "", "", line)
Route(m, p, mw, h, line) == Stmt("route", "", m, p, mw, h, line)

AUTH == "authenticateToken"
NOMW == "none"

ProgramServerJs ==
    << Use("cors", 11),
       Use("json", 19),
       Stmt("sheets", "lenient", "", "", "", "", 22),
       Stmt("initFirebase", "unguarded", "", "", "", "", 30),
       Const(AUTH, 40),
       Route("GET", "/api/verify-token", AUTH, "verifyToken", 60),
       Route("GET", "/api/performance-data", AUTH, "performanceData", 65),
       Route("GET", "/api/trade-history", AUTH, "tradeHistory", 119),
       Const("users", 138),
       Route("POST", "/api/login", NOMW, "login", 146),
       Route("GET", "/", NOMW, "root", 185),
       Route("GET", "/api/pnl-data", AUTH, "pnlData", 189),
       Use("error", 217),
       Use("notfound", 226),
       Route("GET", "/test", NOMW, "test", 231),
       Stmt("listen", "", "", "", "", "", 237) >>

ProgramPart000 ==
    << Use("corsEnv", 11),
       Use("json", 19),
       Stmt("sheets", "strict", "", "", "", "", 22),
       Const("spreadsheetId", 30),
       Route("GET", "/api/test-sheets", AUTH, "testSheets", 33),
       Const("serviceAccount", 47),
       Stmt("initFirebase", "guarded", "", "", "", "", 62),
       Const(AUTH, 73),
       Route("GET", "/api/verify-token", AUTH, "verifyToken", 93),
       Route("GET", "/api/performance-data", AUTH, "performanceData", 98),
       Route("GET", "/api/trade-history", AUTH, "tradeHistory", 122),
       Const("users", 141),
       Route("POST", "/api/login", NOMW, "login", 149),
       Route("GET", "/", NOMW, "root", 188),
       Route("GET", "/api/pnl-data", AUTH, "pnlData", 192),
       Use("error", 220),
       Use("notfound", 229),
       Route("GET", "/test", NOMW, "test", 234),
       Stmt("listen", "", "", "", "", "", 240) >>

ProgramPart001 ==
    << Use("cors", 10),
       Use("json", 18),
       Stmt("sheets", "lenient", "", "", "", "", 21),
       Const(AUTH, 29),
       Route("GET", "/api/performance-data", AUTH, "performanceData", 51),
       Route("GET", "/api/trade-history", AUTH, "tradeHistory", 80),
       Const("users", 106),
       Route("POST", "/api/login", NOMW, "login", 114),
       Route("GET", "/", NOMW, "root", 153),
       Route("GET", "/api/pnl-data", AUTH, "pnlData", 157),
       Use("error", 185),
       Use("notfound", 194),
       Route("GET", "/test", NOMW, "test", 199),
       Stmt("listen", "", "", "", "", "", 205) >>

Program(v) ==
    CASE v = "server.js" -> ProgramServerJs
      [] v = "part_000"  -> ProgramPart000
      [] v = "part_001"  -> ProgramPart001

CurStmt == Program(variant)[ip]

Loading(op) ==
    /\ proc = "loading"
    /\ ip <= Len(Program(variant))
    /\ CurStmt.op = op

\* a layer of the Express stack
Layer(kind, s) ==
    [kind |-> kind, method |-> s.method, path |-> s.path,
     mw |-> s.mw, handler |-> s.handler, line |-> s.line]

Exit(cause) ==
    /\ proc' = "exited"
    /\ exitCause' = cause
    /\ UNCHANGED <<variant, env, ip, defined, stack>>

\* ------------------------------------------------------- startup actions
\* app.use(...): cors, express.json, the error handler, the catch-all 404.
\* part_000 computes the cors origins by process.env.ALLOWED_ORIGINS.split,
\* which throws a TypeError when the variable is not set.
ExecUse ==
    /\ Loading("use")
    /\ IF CurStmt.name = "corsEnv" /\ env.ALLOWED_ORIGINS = UNSET
         THEN Exit("TypeError")
         ELSE /\ stack' = Append(stack,
                    Layer(IF CurStmt.name = "corsEnv" THEN "cors"
                          ELSE CurStmt.name, CurStmt))
              /\ ip' = ip + 1
              /\ UNCHANGED <<variant, env, proc, defined, exitCause>>
    /\ UNCHANGED <<now, reqVars>>

\* new google.auth.GoogleAuth({credentials: JSON.parse(...)}): part_000
\* parses process.env.GOOGLE_CREDENTIALS with no fallback, so an unset
\* variable is a SyntaxError; the other variants fall back to '{}'.
ExecSheets ==
    /\ Loading("sheets")
    /\ IF CurStmt.name = "strict" /\ env.GOOGLE_CREDENTIALS = UNSET
         THEN Exit("SyntaxError")
         ELSE /\ ip' = ip + 1
              /\ defined' = defined \cup {"sheets"}
              /\ UNCHANGED <<variant, env, proc, stack, exitCause>>
    /\ UNCHANGED <<now, reqVars>>

\* const x = ...: the binding leaves its temporal dead zone
ExecConst ==
    /\ Loading("const")
    /\ defined' = defined \cup {CurStmt.name}
    /\ ip' = ip + 1
    /\ UNCHANGED <<variant, env, proc, stack, exitCause, now, reqVars>>

\* admin.initializeApp(...): the identity-provider credential may be
\* rejected.  part_000 catches and calls process.exit(1); server.js lets
\* the exception escape the module, which ends the process as well.
ExecInitFirebase ==
    /\ Loading("initFirebase")
    /\ \E ok \in BOOLEAN :
         IF ok
           THEN /\ ip' = ip + 1
                /\ defined' = defined \cup {"admin"}
                /\ UNCHANGED <<variant, env, proc, stack, exitCause>>
           ELSE Exit("firebase-init")
    /\ UNCHANGED <<now, reqVars>>

\* app.get / app.post: the arguments are evaluated first; naming the const
\* authenticateToken before its declaration has run is a ReferenceError.
ExecRoute ==
    /\ Loading("route")
    /\ IF CurStmt.mw = AUTH /\ AUTH \notin defined
         THEN Exit("ReferenceError")
         ELSE /\ stack' = Append(stack, Layer("route", CurStmt))
              /\ ip' = ip + 1
              /\ UNCHANGED <<variant, env, proc, defined, exitCause>>
    /\ UNCHANGED <<now, reqVars>>

\* app.listen(PORT)
ExecListen ==
    /\ Loading("listen")
    /\ proc' = "listening"
    /\ ip' = ip + 1
    /\ UNCHANGED <<variant, env, defined, stack, exitCause, now, reqVars>>

\* ------------------------------------------------------------ the request
\* authHeader.split(' '): the parts between the spaces
RECURSIVE Split(_)
Split(h) ==
    IF \A i \in 1..Len(h) : h[i] # SP
      THEN <<h>>
      ELSE LET i == CHOOSE k \in 1..Len(h) :
                        h[k] = SP /\ \A j \in 1..(k - 1) : h[j] # SP
           IN  <<SubSeq(h, 1, i - 1)>> \o Split(SubSeq(h, i + 1, Len(h)))

\* authHeader.split(' ')[0]: the scheme word taken for the token
TokenOfFirstPart(r) ==
    IF ~r.hasAuth \/ r.header = <<>> THEN <<>> ELSE Split(r.header)[1]

\* const token = authHeader && authHeader.split(' ')[1];
\* the empty sequence stands for every falsy outcome (undefined or '')
TokenOf(r) ==
    IF ~r.hasAuth \/ r.header = <<>>
      THEN <<>>
      ELSE LET parts == Split(r.header)
           IN  IF Len(parts) >= 2 THEN parts[2] ELSE <<>>

\* process.env.JWT_SECRET || 'your-secret-key'
EffectiveSecret(e) ==
    IF e.JWT_SECRET = UNSET \/ e.JWT_SECRET = "" THEN DefaultSecret
    ELSE e.JWT_SECRET

\* a verification that does not look at exp
JwtVerifyIgnoringExp(token, secret, t) ==
    /\ Len(token) = 1
    /\ token[1].k = "jwt"
    /\ token[1].secret = secret

\* jwt.verify(token, secret, cb): err unless the string is one token signed
\* with the secret whose exp lies in the future
JwtVerifyOk(token, secret, t) ==
    /\ Len(token) = 1
    /\ token[1].k = "jwt"
    /\ token[1].secret = secret
    /\ t < token[1].exp

\* admin.auth().verifyIdToken(token): the identity provider accepts only a
\* genuine, unexpired ID token; the call may also reject on its own
IdTokenGenuine(token, t) ==
    /\ Len(token) = 1
    /\ token[1].k = "jwt"
    /\ token[1].secret = FirebaseKey
    /\ t < token[1].exp

VerifyIdTokenOutcomes(token, t) ==
    IF IdTokenGenuine(token, t) THEN {"ok", "rejected"} ELSE {"rejected"}

\* jwt.sign({email}, secret, {expiresIn: '24h'})
JwtSign(email, secret, t) == Atom("jwt", email, secret, t + ExpiresIn)

RECURSIVE SeqsUpTo(_, _)
SeqsUpTo(S, n) ==
    IF n = 0 THEN {<<>>}
    ELSE LET shorter == SeqsUpTo(S, n - 1)
         IN  shorter \cup {Append(q, x) : q \in shorter, x \in S}

Headers(t) == SeqsUpTo({SP, BEARER, t}, MaxHeaderLen)

Paths ==
    {"/", "/test", "/api/login", "/api/verify-token", "/api/test-sheets",
     "/api/performance-data", "/api/trade-history", "/api/pnl-data", "/nope"}

NoBody == [malformed |-> FALSE, email |-> UNDEF, password |-> UNDEF]

LoginBodies ==
    [malformed : {FALSE},
     email     : {UNDEF, ValidEmail, "eve@x.io"},
     password  : {UNDEF, ValidPassword, "456"}]
    \cup {[malformed |-> TRUE, email |-> UNDEF, password |-> UNDEF]}

Sheets == {UNDEF, "Archive"}   \* req.query.sheet

NoReq ==
    [method |-> "", path |-> "", sheet |-> UNDEF, body |-> NoBody,
     hasAuth |-> FALSE, header |-> <<>>, user |-> NoToken]

\* ----------------------------------------------------------- the response
\* A JSON body: an array (items) or an object; of an object, the properties
\* the handlers set (UNDEF: the property is absent), and under the property
\* named by dataKey the array items.
Body(shape, error, details, message, success, token, user, dataKey, items) ==
    [shape |-> shape, error |-> error, details |-> details,
     message |-> message, success |-> success, token |-> token,
     user |-> user, dataKey |-> dataKey, items |-> items]

ErrorBody(error) ==
    Body("object", error, UNDEF, UNDEF, UNDEF, NoToken, NoToken, "", <<>>)
MessageBody(m) ==
    Body("object", UNDEF, UNDEF, m, UNDEF, NoToken, NoToken, "", <<>>)
ArrayBody(items) ==
    Body("array", UNDEF, UNDEF, UNDEF, UNDEF, NoToken, NoToken, "", items)
DataBody(key, items) ==
    Body("object", UNDEF, UNDEF, UNDEF, UNDEF, NoToken, NoToken, key, items)

Resp(status, body) == [status |-> status, body |-> body]
NoRes == Resp(0, MessageBody(UNDEF))

NoTrail == [handler |-> "", next |-> FALSE, verify |-> "none"]

\* ---------------------------------------------------------------- routing
\* Express offers a request to the layers in registration order; after
\* next(err) only error-handling layers (four arguments) are offered.
Matches(l, r, e) ==
    IF e # UNDEF
      THEN l.kind = "error"
      ELSE \/ l.kind \in {"cors", "json", "notfound"}
           \/ l.kind = "route" /\ l.method = r.method /\ l.path = r.path

NextMatch(i, r, e) ==
    LET c == {j \in i..Len(stack) : Matches(stack[j], r, e)}
    IN  IF c = {} THEN Len(stack) + 1
        ELSE CHOOSE j \in c : \A k \in c : j <= k

AtLayer(kind) ==
    /\ rpc = "dispatch"
    /\ idx <= Len(stack)
    /\ stack[idx].kind = kind

\* ------------------------------------------------------- the spreadsheet
\* What sheets.spreadsheets.values.get may resolve to.  Rows are sequences
\* of cell strings; the API leaves out trailing empty cells.
HistoryRows ==
    { <<"2024-01-01", "BTC", "long", "150.5">>,
      <<"2024-01-02", "ETH", "short", "-20">>,
      <<"1", "2024-01-01", "BTC", "long", "150.5">>,
      <<"2", "2024-01-02", "ETH", "short", "-20">>,
      <<"3", "2024-01-03">>,
      <<"4", "2024-01-04", "SOL", "long", "abc">>,
      <<"5", "2024-01-05", "ADA", "short", "">>,
      <<"6", "2024-01-06", "XRP", "long", " 12.50usd">> }

SummaryRows ==
    { <<"10", "", "20", "", "30", "", "40">>,
      <<"1%", "2%", "3%", "4%">> }

Range(sheet, cells) == [sheet |-> sheet, cells |-> cells]

IsSummaryRange(range) == range.cells \in {"H1:N1", "G2:M2", "B2:E3", "A1:A1"}

Matrices(range) ==
    SeqsUpTo(IF IsSummaryRange(range) THEN SummaryRows ELSE HistoryRows,
             MaxRows)

ErrMsgs == {"The caller does not have permission"}

Read(range, st, has, values, msg) ==
    [range |-> range, st |-> st, has |-> has, values |-> values, msg |-> msg]

Pending(range) == Read(range, "pending", FALSE, <<>>, UNDEF)

\* the outcomes of one read: rejected, resolved without a values property,
\* or resolved with a matrix
ReadOutcomes(range) ==
    {Read(range, "failed", FALSE, <<>>, m) : m \in ErrMsgs}
    \cup {Read(range, "ok", FALSE, <<>>, UNDEF)}
    \cup {Read(range, "ok", TRUE, v, UNDEF) : v \in Matrices(range)}

\* row[i] with JavaScript's zero-based index
Cell(row, i) == IF i + 1 <= Len(row) THEN row[i + 1] ELSE UNDEF

Truthy(c) == c # UNDEF /\ c # ""

\* c || '0'
OrZero(c) == IF Truthy(c) THEN c ELSE "0"

\* the characters of the cell strings that reach parseFloat; any other
\* cell is text that starts no number
CellChars(c) ==
    CASE c = "150.5"     -> <<"1", "5", "0", ".", "5">>
      [] c = "-20"       -> <<"-", "2", "0">>
      [] c = " 12.50usd" -> <<" ", "1", "2", ".", "5", "0", "u", "s", "d">>
      [] c = "abc"       -> <<"a", "b", "c">>
      [] c = ""          -> <<>>
      [] OTHER           -> <<"x">>

DigitValue(d) ==
    CASE d = "0" -> 0 [] d = "1" -> 1 [] d = "2" -> 2 [] d = "3" -> 3
      [] d = "4" -> 4 [] d = "5" -> 5 [] d = "6" -> 6 [] d = "7" -> 7
      [] d = "8" -> 8 [] d = "9" -> 9

IsDigit(ch) == ch \in {"0", "1", "2", "3", "4", "5", "6", "7", "8", "9"}

\* the number of digits of s from position i on
RECURSIVE DigitRun(_, _)
DigitRun(s, i) ==
    IF i <= Len(s) /\ IsDigit(s[i]) THEN 1 + DigitRun(s, i + 1) ELSE 0

RECURSIVE SkipSpaces(_)
SkipSpaces(s) == IF s # <<>> /\ Head(s) = " " THEN SkipSpaces(Tail(s)) ELSE s

RECURSIVE WholeValue(_)
WholeValue(ds) ==
    IF ds = <<>> THEN 0
    ELSE 10 * WholeValue(SubSeq(ds, 1, Len(ds) - 1)) + DigitValue(ds[Len(ds)])

RECURSIVE DropTrailingZeros(_)
DropTrailingZeros(ds) ==
    IF ds # <<>> /\ ds[Len(ds)] = "0"
      THEN DropTrailingZeros(SubSeq(ds, 1, Len(ds) - 1))
      ELSE ds

\* a JavaScript number as JSON prints it (sign, whole part, fraction
\* digits), NaN, and JSON null
Number(neg, whole, frac) ==
    [t |-> "number", neg |-> neg, whole |-> whole, frac |-> frac]
NaN      == [t |-> "NaN", neg |-> FALSE, whole |-> 0, frac |-> <<>>]
JsonNull == [t |-> "null", neg |-> FALSE, whole |-> 0, frac |-> <<>>]

\* parseFloat(c): leading white space, an optional sign, then the longest
\* prefix digits[.digits]; NaN when that prefix has no digit (exponents
\* and Infinity do not occur in the cells of the model)
ParseFloat(c) ==
    LET s     == SkipSpaces(CellChars(c))
        sign  == IF s # <<>> /\ Head(s) \in {"-", "+"} THEN 1 ELSE 0
        n     == DigitRun(s, sign + 1)
        dot   == sign + n + 1
        m     == IF dot <= Len(s) /\ s[dot] = "." THEN DigitRun(s, dot + 1)
                 ELSE 0
        whole == WholeValue(SubSeq(s, sign + 1, sign + n))
        frac  == DropTrailingZeros(SubSeq(s, dot + 1, dot + m))
    IN  IF n = 0 /\ m = 0 THEN NaN
        ELSE Number(sign = 1 /\ Head(s) = "-" /\ (whole # 0 \/ frac # <<>>),
                    whole, frac)

\* JSON.stringify of a number: NaN becomes null
ToJson(x) == IF x.t = "NaN" THEN JsonNull ELSE x

RECURSIVE Reverse(_)
Reverse(q) ==
    IF q = <<>> THEN <<>> ELSE Append(Reverse(Tail(q)), Head(q))

\* ------------------------------------------------------------- the mappers
SummaryEntry(title, value, change) ==
    [title |-> title, value |-> value, change |-> change]

\* server.js 88-109
FormattedDataServerJs(valueRows, changeRows) ==
    << SummaryEntry("This Week PNL", OrZero(Cell(valueRows[1], 0)),
                    OrZero(Cell(changeRows[1], 0))),
       SummaryEntry("Last Week PNL", OrZero(Cell(valueRows[1], 2)),
                    OrZero(Cell(changeRows[1], 2))),
       SummaryEntry("Monthly PNL", OrZero(Cell(valueRows[1], 4)),
                    OrZero(Cell(changeRows[1], 4))),
       SummaryEntry("Yearly PNL", OrZero(Cell(valueRows[1], 6)),
                    OrZero(Cell(changeRows[1], 6))) >>

\* part_001 65-70
FormattedDataPart001(rows) ==
    << SummaryEntry("This Week PNL", Cell(rows[2], 0), Cell(rows[1], 0)),
       SummaryEntry("Last Week PNL", Cell(rows[2], 1), Cell(rows[1], 1)),
       SummaryEntry("Monthly PNL", Cell(rows[2], 2), Cell(rows[1], 2)),
       SummaryEntry("Yearly PNL", Cell(rows[2], 3), Cell(rows[1], 3)) >>

\* a row mapper that starts at the first cell
TradeRecordFromFirstCell(row) ==
    [date |-> Cell(row, 0), name |-> Cell(row, 1),
     tradeType |-> Cell(row, 2), pnl |-> Cell(row, 3)]

\* part_001 91-96: the row mapper of trade history
TradeRecord(row) ==
    [date |-> Cell(row, 1), name |-> Cell(row, 2),
     tradeType |-> Cell(row, 3), pnl |-> Cell(row, 4)]

TradeHistoryPart001(values) ==
    Reverse([i \in 1..Len(values) |-> TradeRecord(values[i])])

\* a row mapper that defaults a missing P&L cell to 0
PnlRecordDefaultZero(row) ==
    [date |-> Cell(row, 1),
     pnl  |-> IF Truthy(Cell(row, 4)) THEN ToJson(ParseFloat(Cell(row, 4)))
              ELSE Number(FALSE, 0, <<>>)]

\* the row mapper of the P&L series, as res.json serialises it
PnlRecord(row) ==
    [date |-> Cell(row, 1),
     pnl  |-> IF Truthy(Cell(row, 4)) THEN ToJson(ParseFloat(Cell(row, 4)))
              ELSE JsonNull]

PnlData(values) == [i \in 1..Len(values) |-> PnlRecord(values[i])]

\* ------------------------------------------------------------ the handlers
SyncHandlers == {"root", "test", "login", "verifyToken"}

\* a login that accepts a match of either field
LoginResponseEitherField(b, e, t) ==
    IF b.email = ValidEmail \/ b.password = ValidPassword
      THEN Resp(200, Body("object", UNDEF, UNDEF, "Login successful", "true",
                          JwtSign(ValidEmail, EffectiveSecret(e), t),
                          NoToken, "", <<>>))
      ELSE Resp(401, Body("object", "Invalid credentials", UNDEF, UNDEF,
                          "false", NoToken, NoToken, "", <<>>))

\* app.post('/api/login')
LoginResponse(b, e, t) ==
    IF b.email = ValidEmail /\ b.password = ValidPassword
      THEN Resp(200, Body("object", UNDEF, UNDEF, "Login successful", "true",
                          JwtSign(ValidEmail, EffectiveSecret(e), t),
                          NoToken, "", <<>>))
      ELSE Resp(401, Body("object", "Invalid credentials", UNDEF, UNDEF,
                          "false", NoToken, NoToken, "", <<>>))

\* the handlers that answer without awaiting anything
SyncResponse(h, r) ==
    CASE h = "root"  -> Resp(200, MessageBody("Server is running!"))
      [] h = "test"  -> Resp(200, MessageBody("Server is running and accessible!"))
      [] h = "login" -> LoginResponse(r.body, env, now)
      [] h = "verifyToken" ->
            Resp(200, Body("object", UNDEF, UNDEF, UNDEF, "true", NoToken,
                           r.user, "", <<>>))

\* the ranges a handler reads, in the order it issues the reads
RangesOf(v, h, r) ==
    CASE h = "performanceData" ->
            IF v = "part_001"
              THEN <<Range("Performance-Overview", "B2:E3")>>
              ELSE <<Range("Trade-History", "H1:N1"),
                     Range("Trade-History", "G2:M2")>>
      [] h = "tradeHistory" ->
            IF v = "part_001"
              THEN <<Range("Trade-History", "A2:E")>>
              ELSE <<Range("Sheet1", "A:Z")>>
      [] h = "pnlData" ->
            <<Range(IF Truthy(r.sheet) THEN r.sheet ELSE "Trade-History",
                    "A2:E")>>
      [] h = "testSheets" -> <<Range("Trade-History", "A1:A1")>>

\* the catch block of a handler: what it answers when a read rejects
OnRejected(v, h, msg) ==
    CASE h = "performanceData" ->
            Resp(500, ErrorBody("Failed to fetch performance data"))
      [] h = "tradeHistory" ->
            Resp(500, ErrorBody(IF v = "part_001"
                                  THEN "Failed to fetch trade history"
                                  ELSE "Failed to load trade history"))
      [] h = "pnlData" ->
            Resp(500, Body("object", "Failed to fetch PNL data", msg, UNDEF,
                           UNDEF, NoToken, NoToken, "", <<>>))
      [] h = "testSheets" ->
            Resp(500, ErrorBody("Failed to connect to Google Sheets"))

FirstRow(m) == IF Len(m) > 0 THEN m[1] ELSE <<>>

\* a summary handler without the no-data check: indexing the missing row
\* throws inside the try
PerformanceDataUnchecked(v, rs) ==
    IF \E i \in DOMAIN rs :
           ~rs[i].has \/ Len(rs[i].values) < (IF v = "part_001" THEN 2 ELSE 1)
      THEN OnRejected(v, "performanceData", "TypeError")
    ELSE IF v = "part_001"
      THEN Resp(200, ArrayBody(FormattedDataPart001(rs[1].values)))
      ELSE Resp(200, ArrayBody(
                FormattedDataServerJs(rs[1].values, rs[2].values)))

PerformanceData(v, rs) ==
    CASE v = "server.js" ->
            IF \/ ~rs[1].has \/ ~rs[2].has
               \/ Len(rs[1].values) = 0 \/ Len(rs[2].values) = 0
              THEN Resp(404, ErrorBody("No data found in spreadsheet"))
              ELSE Resp(200, ArrayBody(
                        FormattedDataServerJs(rs[1].values, rs[2].values)))
      [] v = "part_000" ->
            \* values[0] of a missing values property throws inside the try
            IF ~rs[1].has \/ ~rs[2].has
              THEN OnRejected(v, "performanceData", "TypeError")
              ELSE Resp(200, DataBody("values,changes",
                        <<FirstRow(rs[1].values), FirstRow(rs[2].values)>>))
      [] v = "part_001" ->
            IF ~rs[1].has \/ Len(rs[1].values) < 2
              THEN Resp(404, ErrorBody("No data found in spreadsheet"))
              ELSE Resp(200, ArrayBody(FormattedDataPart001(rs[1].values)))

TradeHistory(v, rs) ==
    IF v = "part_001"
      THEN IF ~rs[1].has \/ Len(rs[1].values) = 0
             THEN Resp(200, ArrayBody(<<>>))
             ELSE Resp(200, ArrayBody(TradeHistoryPart001(rs[1].values)))
      ELSE Resp(200, DataBody("data",
                              IF rs[1].has THEN rs[1].values ELSE <<>>))

PnlDataResponse(rs) ==
    IF ~rs[1].has THEN Resp(200, ArrayBody(<<>>))
    ELSE Resp(200, ArrayBody(PnlData(rs[1].values)))

\* what a handler answers once all its reads have resolved
OnResolved(v, h, rs) ==
    CASE h = "performanceData" -> PerformanceData(v, rs)
      [] h = "tradeHistory"    -> TradeHistory(v, rs)
      [] h = "pnlData"         -> PnlDataResponse(rs)
      [] h = "testSheets" ->
            Resp(200, Body("object", UNDEF, UNDEF, UNDEF, "true", NoToken,
                           NoToken, "data", rs[1].values))

\* the catch-all error handler
ErrorHandlerResponse(e, msg) ==
    Resp(500, Body("object", "Something went wrong!", UNDEF,
                   IF e.NODE_ENV = "development" THEN msg ELSE UNDEF,
                   UNDEF, NoToken, NoToken, "", <<>>))

\* --------------------------------------------------------- request actions
Send(r) ==
    /\ res' = r
    /\ sent' = sent + 1
    /\ rpc' = "responded"

\* next() of the auth gate, or a route without one: the handler runs to its
\* response or to its first await
EnterHandler(h, r) ==
    IF h \in SyncHandlers
      THEN /\ Send(SyncResponse(h, r))
           /\ reads' = <<>>
      ELSE /\ reads' = [i \in 1..Len(RangesOf(variant, h, r)) |->
                          Pending(RangesOf(variant, h, r)[i])]
           /\ rpc' = "awaiting"
           /\ UNCHANGED <<res, sent>>

Requests ==
    {[NoReq EXCEPT !.method = m, !.path = p] :
        m \in {"GET", "OPTIONS"}, p \in Paths}
    \cup {[NoReq EXCEPT !.method = "GET", !.path = "/api/pnl-data",
                        !.sheet = s] : s \in Sheets}
    \cup {[NoReq EXCEPT !.method = "POST", !.path = "/api/login",
                        !.body = b] : b \in LoginBodies}

Receive ==
    /\ proc = "listening"
    /\ rpc = "idle"
    /\ \E r \in Requests :
         /\ req' = r
         /\ idx' = NextMatch(1, r, UNDEF)
    /\ rpc' = "dispatch"
    /\ UNCHANGED <<startVars, now, err, res, sent, trail, reads>>

\* cors(): answers an OPTIONS preflight itself with 204, lets the other
\* methods through
Cors ==
    /\ AtLayer("cors")
    /\ IF req.method = "OPTIONS"
         THEN /\ Send(Resp(204, MessageBody(UNDEF)))
              /\ UNCHANGED idx
         ELSE /\ idx' = NextMatch(idx + 1, req, err)
              /\ UNCHANGED <<rpc, res, sent>>
    /\ UNCHANGED <<startVars, now, req, err, trail, reads>>

\* express.json(): a body that does not parse goes to next(err)
Json ==
    /\ AtLayer("json")
    /\ err' = IF req.body.malformed THEN "Unexpected token in JSON" ELSE err
    /\ idx' = NextMatch(idx + 1, req, err')
    /\ UNCHANGED <<startVars, now, req, rpc, res, sent, trail, reads>>

\* a route registered without middleware
RouteOpen ==
    /\ AtLayer("route")
    /\ stack[idx].mw = NOMW
    /\ trail' = [trail EXCEPT !.handler = stack[idx].handler]
    /\ EnterHandler(stack[idx].handler, req)
    /\ UNCHANGED <<startVars, now, req, idx, err>>

\* the Authorization header a client may send
AuthHeaders ==
    {[hasAuth |-> FALSE, header |-> <<>>]}
    \cup {[hasAuth |-> TRUE, header |-> h] :
            h \in UNION {Headers(t) : t \in ClientTokens}}

\* authenticateToken of server.js and part_000, up to its await
AuthenticateTokenFirebase ==
    /\ AtLayer("route")
    /\ stack[idx].mw = AUTH
    /\ variant # "part_001"
    /\ \E a \in AuthHeaders :
         /\ req' = [req EXCEPT !.hasAuth = a.hasAuth, !.header = a.header]
         /\ IF TokenOf(req') = <<>>
              THEN /\ Send(Resp(401, ErrorBody("No token provided")))
                   /\ UNCHANGED trail
              ELSE /\ rpc' = "verifying"
                   /\ trail' = [trail EXCEPT !.verify = "pending"]
                   /\ UNCHANGED <<res, sent>>
    /\ UNCHANGED <<startVars, now, idx, err, reads>>

\* verifyIdToken settles: on success req.user and next(), else the catch
VerifyIdTokenSettles ==
    /\ rpc = "verifying"
    /\ \E o \in VerifyIdTokenOutcomes(TokenOf(req), now) :
         IF o = "ok"
           THEN /\ req' = [req EXCEPT !.user = TokenOf(req)[1]]
                /\ trail' = [handler |-> stack[idx].handler, next |-> TRUE,
                             verify |-> "ok"]
                /\ EnterHandler(stack[idx].handler, req')
           ELSE /\ trail' = [trail EXCEPT !.verify = "failed"]
                /\ Send(Resp(403, ErrorBody("Invalid token")))
                /\ UNCHANGED <<req, reads>>
    /\ UNCHANGED <<startVars, now, idx, err>>

\* authenticateToken of part_001: jwt.verify calls back before it returns
AuthenticateTokenJwt ==
    /\ AtLayer("route")
    /\ stack[idx].mw = AUTH
    /\ variant = "part_001"
    /\ \E a \in AuthHeaders :
         LET r == [req EXCEPT !.hasAuth = a.hasAuth, !.header = a.header]
             token == TokenOf(r)
         IN  IF token = <<>>
               THEN /\ req' = r
                    /\ Send(Resp(401, ErrorBody("No token provided")))
                    /\ UNCHANGED <<trail, reads>>
               ELSE IF JwtVerifyOk(token, EffectiveSecret(env), now)
                 THEN /\ req' = [r EXCEPT !.user = token[1]]
                      /\ trail' = [handler |-> stack[idx].handler,
                                   next |-> TRUE, verify |-> "ok"]
                      /\ EnterHandler(stack[idx].handler, req')
                 ELSE /\ req' = r
                      /\ trail' = [trail EXCEPT !.verify = "failed"]
                      /\ Send(Resp(403, ErrorBody("Invalid token")))
                      /\ UNCHANGED reads
    /\ UNCHANGED <<startVars, now, idx, err>>

\* one spreadsheet read settles; the handler resumes when its await does:
\* at the first rejection, or when every read has resolved
ReadSettles ==
    /\ rpc \in {"awaiting", "responded"}
    /\ \E i \in DOMAIN reads :
         /\ reads[i].st = "pending"
         /\ \E o \in ReadOutcomes(reads[i].range) :
              LET rs == [reads EXCEPT ![i] = o]
              IN  /\ reads' = rs
                  /\ IF rpc = "awaiting" /\ o.st = "failed"
                       THEN Send(OnRejected(variant, trail.handler, o.msg))
                     ELSE IF rpc = "awaiting"
                             /\ \A j \in DOMAIN rs : rs[j].st = "ok"
                       THEN Send(OnResolved(variant, trail.handler, rs))
                     ELSE UNCHANGED <<res, sent, rpc>>
    /\ UNCHANGED <<startVars, now, req, idx, err, trail>>

\* app.use((req, res) => res.status(404)...)
NotFound ==
    /\ AtLayer("notfound")
    /\ Send(Resp(404, ErrorBody("Route not found")))
    /\ UNCHANGED <<startVars, now, req, idx, err, trail, reads>>

\* app.use((err, req, res, next) => ...)
ErrorHandler ==
    /\ AtLayer("error")
    /\ Send(ErrorHandlerResponse(env, err))
    /\ UNCHANGED <<startVars, now, req, idx, err, trail, reads>>

\* the response is out and nothing of the request is pending
Finish ==
    /\ rpc = "responded"
    /\ \A i \in DOMAIN reads : reads[i].st # "pending"
    /\ req' = NoReq
    /\ rpc' = "idle"
    /\ idx' = 0
    /\ err' = UNDEF
    /\ res' = NoRes
    /\ sent' = 0
    /\ trail' = NoTrail
    /\ reads' = <<>>
    /\ UNCHANGED <<startVars, now>>

Tick ==
    /\ proc = "listening"
    /\ rpc = "idle"
    /\ now < MaxTicks * HalfDay
    /\ now' = now + HalfDay
    /\ UNCHANGED <<startVars, reqVars>>

\* ------------------------------------------------------------ specification
ConfigPresent(e) ==
    e.ALLOWED_ORIGINS # UNSET /\ e.GOOGLE_CREDENTIALS # UNSET

\* the environments: every setting of the secret and the mode with the
\* configuration present, and the bare environments that miss part of it
Envs ==
    {e \in [JWT_SECRET         : {UNSET, "s3cr3t"},
            NODE_ENV           : {UNSET, "development", "production"},
            ALLOWED_ORIGINS    : {UNSET, "http://localhost:3000"},
            GOOGLE_CREDENTIALS : {UNSET, "{}"}] :
        ConfigPresent(e) \/ (e.JWT_SECRET = UNSET /\ e.NODE_ENV = UNSET)}

Init ==
    /\ variant \in Variants
    /\ env \in Envs
    /\ proc = "loading"
    /\ ip = 1
    /\ defined = {}
    /\ stack = <<>>
    /\ exitCause = "none"
    /\ now = 0
    /\ req = NoReq
    /\ rpc = "idle"
    /\ idx = 0
    /\ err = UNDEF
    /\ res = NoRes
    /\ sent = 0
    /\ trail = NoTrail
    /\ reads = <<>>

Next ==
    \/ ExecUse
    \/ ExecSheets
    \/ ExecConst
    \/ ExecInitFirebase
    \/ ExecRoute
    \/ ExecListen
    \/ Receive
    \/ Cors
    \/ Json
    \/ RouteOpen
    \/ AuthenticateTokenFirebase
    \/ VerifyIdTokenSettles
    \/ AuthenticateTokenJwt
    \/ ReadSettles
    \/ NotFound
    \/ ErrorHandler
    \/ Finish
    \/ Tick

Spec == Init /\ [][Next]_vars

\* ------------------------------------------------------------ properties
ProtectedPaths ==
    {"/api/verify-token", "/api/test-sheets", "/api/performance-data",
     "/api/trade-history", "/api/pnl-data"}

\* the request has been handed to the route of a protected endpoint and
\* its Authorization header has been read
PastGate ==
    /\ rpc \in {"verifying", "awaiting", "responded"}
    /\ idx <= Len(stack)
    /\ stack[idx].kind = "route"
    /\ req.path \in ProtectedPaths

\* the header has no space, or nothing but the end or another space
\* follows its first space
NoTokenPart(h) ==
    \/ \A i \in 1..Len(h) : h[i] # SP
    \/ \E i \in 1..Len(h) :
         /\ h[i] = SP
         /\ \A j \in 1..(i - 1) : h[j] # SP
         /\ (i = Len(h) \/ h[i + 1] = SP)

\* C1: a request to a protected endpoint whose Authorization header is
\* absent or has no token part after the first space is answered 401,
\* once, without next(), without the route handler being entered and
\* without a spreadsheet read.
C1_NoTokenIs401 ==
    (PastGate /\ (~req.hasAuth \/ NoTokenPart(req.header)))
      => /\ rpc = "responded"
         /\ res.status = 401
         /\ sent = 1
         /\ ~trail.next
         /\ trail.handler = ""
         /\ trail.verify = "none"
         /\ reads = <<>>

C1_Witness ==
    /\ PastGate
    /\ req.path = "/api/pnl-data"
    /\ req.hasAuth
    /\ req.header = <<BEARER, SP>>
    /\ res.status = 401

\* C2: a request whose token verification fails is answered 403, next() is
\* not called and no read is issued; a read only starts after the token of
\* the same request has been verified: the handler runs only for a token
\* that is genuine for the variant's verifier and has not expired.
C2_FailedVerificationIs403 ==
    /\ trail.verify = "failed"
         => /\ rpc = "responded"
            /\ res.status = 403
            /\ sent = 1
            /\ ~trail.next
            /\ trail.handler = ""
            /\ reads = <<>>
    /\ trail.verify = "pending" => (reads = <<>> /\ ~trail.next /\ sent = 0)
    /\ (reads # <<>> \/ trail.next)
         => /\ trail.verify = "ok"
            /\ trail.next
            /\ req.user.k = "jwt"
            /\ now < req.user.exp
            /\ req.user.secret = IF variant = "part_001"
                                   THEN EffectiveSecret(env)
                                   ELSE FirebaseKey

\* an expired token of the JWT variant, signed with the right secret
C2_Witness ==
    /\ variant = "part_001"
    /\ trail.verify = "failed"
    /\ res.status = 403
    /\ TokenOf(req) = <<Atom("jwt", ValidEmail, EffectiveSecret(env), ExpiresIn)>>
    /\ now >= ExpiresIn

\* C3: login with the valid pair answers 200 with a token carrying the
\* account's email, signed with the configured secret and expiring 24 hours
\* after now; any other pair answers 401 without a token.
C3_Login ==
    (trail.handler = "login" /\ rpc = "responded")
      => IF req.body.email = "asb@gmail.com" /\ req.body.password = "123"
           THEN /\ res.status = 200
                /\ res.body.success = "true"
                /\ res.body.token.k = "jwt"
                /\ res.body.token.email = "asb@gmail.com"
                /\ res.body.token.secret =
                     (IF env.JWT_SECRET = UNSET THEN "your-secret-key"
                      ELSE env.JWT_SECRET)
                /\ res.body.token.exp = now + 24 * 60 * 60
           ELSE /\ res.status = 401
                /\ res.body.token = NoToken
                /\ res.body.success = "false"

\* a login that matches the email only, refused
C3_Witness ==
    /\ trail.handler = "login"
    /\ rpc = "responded"
    /\ req.body.email = ValidEmail
    /\ req.body.password = "456"
    /\ res.status = 401

NoValues(r) == r.st = "ok" /\ (~r.has \/ r.values = <<>>)

\* C4: the summary endpoint with two concurrent reads sends at most one
\* response; once a read has failed the response is 500; once both have
\* resolved and one has no values the response is 404.
C4_TwoReads ==
    (trail.handler = "performanceData" /\ Len(reads) = 2)
      => /\ sent <= 1
         /\ (rpc = "responded") = (sent = 1)
         /\ (\E i \in 1..2 : reads[i].st = "failed")
              => (rpc = "responded" /\ res.status = 500)
         /\ ((\A i \in 1..2 : reads[i].st = "ok")
             /\ (\E i \in 1..2 : NoValues(reads[i])))
              => (rpc = "responded" /\ res.status = 404)

\* the second read fails while the first is still pending
C4_Witness ==
    /\ trail.handler = "performanceData"
    /\ Len(reads) = 2
    /\ reads[1].st = "pending"
    /\ reads[2].st = "failed"
    /\ res.status = 500

\* the first read resolves with rows, the second without values
C4_Witness404 ==
    /\ trail.handler = "performanceData"
    /\ Len(reads) = 2
    /\ reads[1].st = "ok" /\ reads[1].has /\ Len(reads[1].values) > 0
    /\ NoValues(reads[2])
    /\ res.status = 404

\* C5: a list-shaped endpoint whose read resolves with zero rows answers
\* the empty array with a success status.
C5_ZeroRowsIsEmptyArray ==
    (/\ trail.handler \in {"tradeHistory", "pnlData"}
     /\ rpc = "responded"
     /\ NoValues(reads[1]))
      => /\ res.status = 200
         /\ res.body.shape = "array"
         /\ res.body.items = <<>>

\* C6: GET /test is answered with the liveness message.
C6_TestIsLive ==
    (req.method = "GET" /\ req.path = "/test" /\ rpc = "responded")
      => /\ res.status = 200
         /\ res.body.message \in {"Server is running!",
                                  "Server is running and accessible!"}

HasRequiredFields(row) == \A i \in 1..4 : Truthy(Cell(row, i))

\* C7: trade history answers one record per source row that has all its
\* required fields, in reverse source order.
C7_TradeHistoryFiltered ==
    (/\ trail.handler = "tradeHistory"
     /\ rpc = "responded"
     /\ reads[1].st = "ok"
     /\ reads[1].has)
      => /\ res.body.shape = "array"
         /\ res.body.items =
              LET kept == SelectSeq(reads[1].values, HasRequiredFields)
              IN  Reverse([i \in 1..Len(kept) |-> TradeRecord(kept[i])])

TradeHistoryAnswered(values) ==
    /\ variant = "part_001"
    /\ trail.handler = "tradeHistory"
    /\ rpc = "responded"
    /\ reads[1].st = "ok"
    /\ reads[1].has
    /\ reads[1].values = values

TradeFields(date, name, tradeType, pnl) ==
    [date |-> date, name |-> name, tradeType |-> tradeType, pnl |-> pnl]

ExampleRecords ==
    << TradeFields("2024-01-02", "ETH", "short", "-20"),
       TradeFields("2024-01-01", "BTC", "long", "150.5") >>

\* C8 as stated: the two four-cell rows of the example give the two
\* records of the example.
C8_ExampleFourCells ==
    TradeHistoryAnswered(<< <<"2024-01-01", "BTC", "long", "150.5">>,
                            <<"2024-01-02", "ETH", "short", "-20">> >>)
      => (res.status = 200 /\ res.body.items = ExampleRecords)

\* C8 amended: the mapper reads columns B to E of the range A2:E, so the
\* two five-cell rows whose cells after the first are those of the example
\* give the two records of the example, reversed; in general each record's
\* four fields are the second to fifth cell of its row.
C8_ExampleFiveCells ==
    /\ TradeHistoryAnswered(
            << <<"1", "2024-01-01", "BTC", "long", "150.5">>,
               <<"2", "2024-01-02", "ETH", "short", "-20">> >>)
         => (/\ res.status = 200
             /\ res.body.shape = "array"
             /\ res.body.items = ExampleRecords)
    /\ (/\ variant = "part_001"
        /\ trail.handler = "tradeHistory"
        /\ rpc = "responded"
        /\ reads[1].st = "ok"
        /\ reads[1].has)
         => LET rows == reads[1].values
                n    == Len(rows)
            IN  /\ Len(res.body.items) = n
                /\ \A i \in 1..n :
                     Len(rows[i]) = 5
                       => res.body.items[n + 1 - i] =
                            TradeFields(rows[i][2], rows[i][3],
                                        rows[i][4], rows[i][5])

C8_Witness ==
    /\ TradeHistoryAnswered(
            << <<"1", "2024-01-01", "BTC", "long", "150.5">>,
               <<"2", "2024-01-02", "ETH", "short", "-20">> >>)
    /\ res.body.items = ExampleRecords

\* C9: with the configuration present the process ends only by a failed
\* identity-provider credential initialisation, otherwise startup reaches
\* the listening state; and the process never ends once it serves.
C9_OnlyCredentialFailureExits ==
    /\ (ConfigPresent(env) /\ proc = "exited") => exitCause = "firebase-init"
    /\ proc = "exited" => (rpc = "idle" /\ ip <= Len(Program(variant)))

\* C10: a 500 response carries the underlying error text only in
\* development mode.
C10_NoDetailOutsideDevelopment ==
    (rpc = "responded" /\ res.status = 500 /\ env.NODE_ENV # "development")
      => (res.body.details = UNDEF /\ res.body.message = UNDEF)

PnlAnswered ==
    /\ trail.handler = "pnlData"
    /\ rpc = "responded"
    /\ reads[1].st = "ok"
    /\ reads[1].has

\* the P&L cells that start with a number, and the number each stands for
NumericCells == {"150.5", "-20", " 12.50usd"}

ExpectedPnl(c) ==
    CASE c = "150.5"     -> Number(FALSE, 150, <<"5">>)
      [] c = "-20"       -> Number(TRUE, 20, <<>>)
      [] c = " 12.50usd" -> Number(FALSE, 12, <<"5">>)

HasNumericPnl(row) == Len(row) >= 5 /\ row[5] \in NumericCells

\* C11 as stated: the P&L series holds one record for each source row
\* whose P&L cell parses as a number and none for the other rows, so
\* every record has a numeric pnl.
C11_PnlRowsFiltered ==
    PnlAnswered
      => LET kept == SelectSeq(reads[1].values, HasNumericPnl)
         IN  /\ res.status = 200
             /\ Len(res.body.items) = Len(kept)
             /\ \A i \in 1..Len(res.body.items) :
                  res.body.items[i].pnl.t = "number"

\* C11 amended: the P&L series holds one record for every source row, in
\* source order: date is the row's second cell, pnl the parsed number when
\* the fifth cell is present, non-empty and starts with a number, and null
\* otherwise.
C11_PnlRowsKept ==
    PnlAnswered
      => LET rows == reads[1].values
         IN  /\ res.status = 200
             /\ res.body.shape = "array"
             /\ Len(res.body.items) = Len(rows)
             /\ \A i \in 1..Len(rows) :
                  /\ res.body.items[i].date =
                       (IF Len(rows[i]) >= 2 THEN rows[i][2] ELSE UNDEF)
                  /\ res.body.items[i].pnl =
                       (IF HasNumericPnl(rows[i]) THEN ExpectedPnl(rows[i][5])
                        ELSE JsonNull)

\* an unparseable P&L cell before a parseable one
C11_Witness ==
    /\ PnlAnswered
    /\ reads[1].values = << <<"4", "2024-01-04", "SOL", "long", "abc">>,
                            <<"1", "2024-01-01", "BTC", "long", "150.5">> >>
    /\ Len(res.body.items) = 2
    /\ res.body.items[1].pnl = JsonNull
    /\ res.body.items[2].pnl = Number(FALSE, 150, <<"5">>)

=============================================================================
